---- MODULE Spec2Model ----
(***************************************************************************)
(* A model of scripts/update_capture_ids.py: the Title ID -> Capture ID    *)
(* transform, the per-source record normalisation, and main's              *)
(* precedence-ordered merge with its metadata bookkeeping.                 *)
(*                                                                         *)
(* Python str values are sequences of one-character strings, bytes values  *)
(* are sequences of integers 0..255, a dict is the sequence of its         *)
(* <<key, value>> items in insertion order, and a file is <<>> when it     *)
(* does not exist and <<content>> when it does.                            *)
(***************************************************************************)
EXTENDS Integers, Sequences, FiniteSets, TLC

(***************************************************************************)
(* Characters and strings                                                  *)
(***************************************************************************)

\* The printable ASCII characters in code point order, from 32 (" "). The
\* grave accent (96), which a TLA+ string cannot hold, is the entry "grave".
Ascii ==
   <<
      " ", "!", "\"", "#", "$", "%", "&", "'", "(", ")", "*", "+", ",", "-", ".", "/",
      "0", "1", "2", "3", "4", "5", "6", "7", "8", "9", ":", ";", "<", "=", ">", "?",
      "@", "A", "B", "C", "D", "E", "F", "G", "H", "I", "J", "K", "L", "M", "N", "O",
      "P", "Q", "R", "S", "T", "U", "V", "W", "X", "Y", "Z", "[", "\\", "]", "^", "_",
      "grave", "a", "b", "c", "d", "e", "f", "g", "h", "i", "j", "k", "l", "m", "n", "o",
      "p", "q", "r", "s", "t", "u", "v", "w", "x", "y", "z", "{", "|", "}", "~" >>

\* Python's None where a str is expected: no str is this one-element sequence.
None == <<"None">>

\* The code point of each character (a table, built once).
CodePoint ==
   [c \in { Ascii[i] : i \in 1..Len(Ascii) } |->
      31 + (CHOOSE i \in 1..Len(Ascii) : Ascii[i] = c)] @@ <<>>

ord(c) == CodePoint[c]

chr(n) == Ascii[n - 31]

\* c.isspace() on the modelled characters.
isspace(c) == c = " "

\* str.lower(): A..Z to a..z, every other character kept.
lower_char(c) == IF ord(c) \in 65..90 THEN chr(ord(c) + 32) ELSE c

RECURSIVE lower(_)
lower(s) == IF s = <<>> THEN <<>> ELSE <<lower_char(Head(s))>> \o lower(Tail(s))

\* str.upper(): a..z to A..Z, every other character kept.
upper_char(c) == IF ord(c) \in 97..122 THEN chr(ord(c) - 32) ELSE c

RECURSIVE upper(_)
upper(s) == IF s = <<>> THEN <<>> ELSE <<upper_char(Head(s))>> \o upper(Tail(s))

\* a < b for Python str: lexicographic by code point.
RECURSIVE str_lt(_, _)
str_lt(a, b) ==
   IF b = <<>> THEN FALSE
   ELSE IF a = <<>> THEN TRUE
   ELSE IF Head(a) = Head(b) THEN str_lt(Tail(a), Tail(b))
   ELSE ord(Head(a)) < ord(Head(b))

\* s.replace(old, new) for a one-character old.
RECURSIVE replace(_, _, _)
replace(s, old, new) ==
   IF s = <<>> THEN <<>>
   ELSE (IF Head(s) = old THEN new ELSE <<Head(s)>>) \o replace(Tail(s), old, new)

RECURSIVE lstrip(_)
lstrip(s) == IF s # <<>> /\ isspace(Head(s)) THEN lstrip(Tail(s)) ELSE s

RECURSIVE rstrip(_)
rstrip(s) ==
   IF s # <<>> /\ isspace(s[Len(s)]) THEN rstrip(SubSeq(s, 1, Len(s) - 1)) ELSE s

\* str.strip()
strip(s) == rstrip(lstrip(s))

\* s[:n]
prefix(s, n) == SubSeq(s, 1, IF Len(s) < n THEN Len(s) ELSE n)

(***************************************************************************)
(* Hexadecimal                                                             *)
(***************************************************************************)

\* The characters of "0123456789ABCDEFabcdef".
HexDigits ==
   { "0", "1", "2", "3", "4", "5", "6", "7", "8", "9",
     "A", "B", "C", "D", "E", "F", "a", "b", "c", "d", "e", "f" }

hexval(c) ==
   IF ord(c) \in 48..57 THEN ord(c) - 48
   ELSE IF ord(c) \in 65..70 THEN ord(c) - 55
   ELSE ord(c) - 87

RECURSIVE skip_spaces(_, _)
skip_spaces(s, i) == IF i <= Len(s) /\ isspace(s[i]) THEN skip_spaces(s, i + 1) ELSE i

\* Whether bytes.fromhex(s) raises ValueError: white space is skipped before a
\* pair of digits, and then two hexadecimal digits must follow.
RECURSIVE fromhex_raises_at(_, _)
fromhex_raises_at(s, i) ==
   LET j == skip_spaces(s, i)
   IN  IF j > Len(s) THEN FALSE
       ELSE IF j + 1 > Len(s) \/ s[j] \notin HexDigits \/ s[j + 1] \notin HexDigits
            THEN TRUE
       ELSE fromhex_raises_at(s, j + 2)

fromhex_raises(s) == fromhex_raises_at(s, 1)

\* bytes.fromhex(s), for an s it does not raise on.
RECURSIVE fromhex_at(_, _)
fromhex_at(s, i) ==
   LET j == skip_spaces(s, i)
   IN  IF j > Len(s) THEN <<>>
       ELSE <<16 * hexval(s[j]) + hexval(s[j + 1])>> \o fromhex_at(s, j + 2)

fromhex(s) == fromhex_at(s, 1)

LowerHexChars ==
   << "0", "1", "2", "3", "4", "5", "6", "7", "8", "9", "a", "b", "c", "d", "e", "f" >>

\* bytes.hex(): two lower-case digits per byte.
RECURSIVE hex(_)
hex(b) ==
   IF b = <<>> THEN <<>>
   ELSE <<LowerHexChars[(Head(b) \div 16) + 1], LowerHexChars[(Head(b) % 16) + 1]>>
        \o hex(Tail(b))

(***************************************************************************)
(* Bit operations on naturals                                              *)
(***************************************************************************)

RECURSIVE BitXor(_, _)
BitXor(a, b) ==
   IF a = 0 THEN b
   ELSE IF b = 0 THEN a
   ELSE ((a + b) % 2) + 2 * BitXor(a \div 2, b \div 2)

RECURSIVE BitAnd(_, _)
BitAnd(a, b) ==
   IF a = 0 \/ b = 0 THEN 0
   ELSE ((a % 2) * (b % 2)) + 2 * BitAnd(a \div 2, b \div 2)

RECURSIVE BitOr(_, _)
BitOr(a, b) ==
   IF a = 0 THEN b
   ELSE IF b = 0 THEN a
   ELSE (IF a % 2 = 1 \/ b % 2 = 1 THEN 1 ELSE 0) + 2 * BitOr(a \div 2, b \div 2)

\* Element-wise xor of two byte sequences of the same length.
RECURSIVE XorBytes(_, _)
XorBytes(a, b) ==
   IF a = <<>> THEN <<>>
   ELSE <<BitXor(Head(a), Head(b))>> \o XorBytes(Tail(a), Tail(b))

(***************************************************************************)
(* AES-128 on one block (FIPS 197), as Crypto.Cipher.AES computes it in    *)
(* ECB mode. The 16 bytes of a block are the state in column order.        *)
(***************************************************************************)

SBOX ==
   <<
      99, 124, 119, 123, 242, 107, 111, 197, 48, 1, 103, 43, 254, 215, 171, 118,
      202, 130, 201, 125, 250, 89, 71, 240, 173, 212, 162, 175, 156, 164, 114, 192,
      183, 253, 147, 38, 54, 63, 247, 204, 52, 165, 229, 241, 113, 216, 49, 21,
      4, 199, 35, 195, 24, 150, 5, 154, 7, 18, 128, 226, 235, 39, 178, 117,
      9, 131, 44, 26, 27, 110, 90, 160, 82, 59, 214, 179, 41, 227, 47, 132,
      83, 209, 0, 237, 32, 252, 177, 91, 106, 203, 190, 57, 74, 76, 88, 207,
      208, 239, 170, 251, 67, 77, 51, 133, 69, 249, 2, 127, 80, 60, 159, 168,
      81, 163, 64, 143, 146, 157, 56, 245, 188, 182, 218, 33, 16, 255, 243, 210,
      205, 12, 19, 236, 95, 151, 68, 23, 196, 167, 126, 61, 100, 93, 25, 115,
      96, 129, 79, 220, 34, 42, 144, 136, 70, 238, 184, 20, 222, 94, 11, 219,
      224, 50, 58, 10, 73, 6, 36, 92, 194, 211, 172, 98, 145, 149, 228, 121,
      231, 200, 55, 109, 141, 213, 78, 169, 108, 86, 244, 234, 101, 122, 174, 8,
      186, 120, 37, 46, 28, 166, 180, 198, 232, 221, 116, 31, 75, 189, 139, 138,
      112, 62, 181, 102, 72, 3, 246, 14, 97, 53, 87, 185, 134, 193, 29, 158,
      225, 248, 152, 17, 105, 217, 142, 148, 155, 30, 135, 233, 206, 85, 40, 223,
      140, 161, 137, 13, 191, 230, 66, 104, 65, 153, 45, 15, 176, 84, 187, 22 >>

\* The round constants of the key schedule.
Rcon == << 1, 2, 4, 8, 16, 32, 64, 128, 27, 54 >>

RECURSIVE SubBytes(_)
SubBytes(st) ==
   IF st = <<>> THEN <<>> ELSE <<SBOX[Head(st) + 1]>> \o SubBytes(Tail(st))

ShiftRows(st) ==
   << st[1], st[6], st[11], st[16], st[5], st[10], st[15], st[4],
      st[9], st[14], st[3], st[8], st[13], st[2], st[7], st[12] >>

\* Multiplication by x in GF(2^8) modulo x^8 + x^4 + x^3 + x + 1.
xtime(b) == IF b >= 128 THEN BitXor((2 * b) % 256, 27) ELSE 2 * b

Xor4(a, b, c, d) == BitXor(BitXor(a, b), BitXor(c, d))

MixColumn(a) ==
   << Xor4(xtime(a[1]), BitXor(xtime(a[2]), a[2]), a[3], a[4]),
      Xor4(a[1], xtime(a[2]), BitXor(xtime(a[3]), a[3]), a[4]),
      Xor4(a[1], a[2], xtime(a[3]), BitXor(xtime(a[4]), a[4])),
      Xor4(BitXor(xtime(a[1]), a[1]), a[2], a[3], xtime(a[4])) >>

MixColumns(st) ==
   MixColumn(SubSeq(st, 1, 4)) \o MixColumn(SubSeq(st, 5, 8))
   \o MixColumn(SubSeq(st, 9, 12)) \o MixColumn(SubSeq(st, 13, 16))

\* The round key after rk, with round constant rc.
NextRoundKey(rk, rc) ==
   LET g  == << BitXor(SBOX[rk[14] + 1], rc), SBOX[rk[15] + 1],
                SBOX[rk[16] + 1], SBOX[rk[13] + 1] >>
       w0 == XorBytes(SubSeq(rk, 1, 4), g)
       w1 == XorBytes(SubSeq(rk, 5, 8), w0)
       w2 == XorBytes(SubSeq(rk, 9, 12), w1)
       w3 == XorBytes(SubSeq(rk, 13, 16), w2)
   IN  w0 \o w1 \o w2 \o w3

\* Rounds r..10 on state st, rk being the key of round r - 1. (The test of the
\* lengths has TLC compute st and rk at every round rather than all at the end.)
RECURSIVE AesRounds(_, _, _)
AesRounds(st, rk, r) ==
   LET nk == NextRoundKey(rk, Rcon[r])
       sb == ShiftRows(SubBytes(st))
   IN  IF Len(st) # Len(rk) THEN <<>>
       ELSE IF r = Len(Rcon) THEN XorBytes(sb, nk)
       ELSE AesRounds(XorBytes(MixColumns(sb), nk), nk, r + 1)

\* AES.new(key, AES.MODE_ECB).encrypt(block) for a 16-byte key and block.
AesEncryptBlock(k, block) == AesRounds(XorBytes(block, k), k, 1)

(***************************************************************************)
(* MD5 (RFC 1321), as hashlib.md5 computes it. A 32-bit word is the pair   *)
(* <<high 16 bits, low 16 bits>>, so that no intermediate value exceeds    *)
(* 31 bits.                                                                *)
(***************************************************************************)

\* floor(2^32 * abs(sin(i))) for i = 1..64.
Md5K ==
   <<
      <<55146, 42104>>, <<59591, 46934>>, <<9248, 28891>>, <<49597, 52974>>,
      <<62844, 4015>>, <<18311, 50730>>, <<43056, 17939>>, <<64838, 38145>>,
      <<27008, 39128>>, <<35652, 63407>>, <<65535, 23473>>, <<35164, 55230>>,
      <<27536, 4386>>, <<64920, 29075>>, <<42617, 17294>>, <<18868, 2081>>,
      <<63006, 9570>>, <<49216, 45888>>, <<9822, 23121>>, <<59830, 51114>>,
      <<54831, 4189>>, <<580, 5203>>, <<55457, 59009>>, <<59347, 64456>>,
      <<8673, 52710>>, <<49975, 2006>>, <<62677, 3463>>, <<17754, 5357>>,
      <<43491, 59653>>, <<64751, 41976>>, <<26479, 729>>, <<36138, 19594>>,
      <<65530, 14658>>, <<34673, 63105>>, <<28061, 24866>>, <<64997, 14348>>,
      <<42174, 59972>>, <<19422, 53161>>, <<63163, 19296>>, <<48831, 48240>>,
      <<10395, 32454>>, <<60065, 10234>>, <<54511, 12421>>, <<1160, 7429>>,
      <<55764, 53305>>, <<59099, 39397>>, <<8098, 31992>>, <<50348, 22117>>,
      <<62505, 8772>>, <<17194, 65431>>, <<43924, 9127>>, <<64659, 41017>>,
      <<25947, 22979>>, <<36620, 52370>>, <<65519, 62589>>, <<34180, 24017>>,
      <<28584, 32335>>, <<65068, 59104>>, <<41729, 17172>>, <<19976, 4513>>,
      <<63315, 32386>>, <<48442, 62005>>, <<10967, 53947>>, <<60294, 54161>> >>

\* The per-step left rotations.
Md5S ==
   <<
      7, 12, 17, 22, 7, 12, 17, 22, 7, 12, 17, 22, 7, 12, 17, 22,
      5, 9, 14, 20, 5, 9, 14, 20, 5, 9, 14, 20, 5, 9, 14, 20,
      4, 11, 16, 23, 4, 11, 16, 23, 4, 11, 16, 23, 4, 11, 16, 23,
      6, 10, 15, 21, 6, 10, 15, 21, 6, 10, 15, 21, 6, 10, 15, 21 >>

\* 0x67452301, 0xefcdab89, 0x98badcfe, 0x10325476
Md5Init == << <<26437, 8961>>, <<61389, 43913>>, <<39098, 56574>>, <<4146, 21622>> >>

Add32(x, y) ==
   LET lo == x[2] + y[2]
       hi == x[1] + y[1] + (lo \div 65536)
   IN  <<hi % 65536, lo % 65536>>

Not32(x) == <<65535 - x[1], 65535 - x[2]>>

And32(x, y) == <<BitAnd(x[1], y[1]), BitAnd(x[2], y[2])>>

Or32(x, y) == <<BitOr(x[1], y[1]), BitOr(x[2], y[2])>>

Xor32(x, y) == <<BitXor(x[1], y[1]), BitXor(x[2], y[2])>>

Rotl32(x, n) ==
   LET y == IF n >= 16 THEN <<x[2], x[1]>> ELSE x
       t == n % 16
   IN  IF t = 0 THEN y
       ELSE << ((y[1] * (2 ^ t)) % 65536) + (y[2] \div (2 ^ (16 - t))),
               ((y[2] * (2 ^ t)) % 65536) + (y[1] \div (2 ^ (16 - t))) >>

\* The k low bytes of n, least significant first.
RECURSIVE LittleEndian(_, _)
LittleEndian(n, k) ==
   IF k = 0 THEN <<>> ELSE <<n % 256>> \o LittleEndian(n \div 256, k - 1)

RECURSIVE Zeros(_)
Zeros(k) == IF k = 0 THEN <<>> ELSE <<0>> \o Zeros(k - 1)

\* The message with its padding: 0x80, zeros up to 56 modulo 64, and the length
\* in bits as 8 little-endian bytes.
Md5Pad(msg) ==
   msg \o <<128>> \o Zeros((119 - Len(msg)) % 64) \o LittleEndian(8 * Len(msg), 8)

\* Word g (from 0) of a 64-byte block, read little-endian.
Md5Word(block, g) ==
   << 256 * block[4 * g + 4] + block[4 * g + 3],
      256 * block[4 * g + 2] + block[4 * g + 1] >>

\* Steps i..63 on one block, from the working state v = <<A, B, C, D>>. (The
\* test of Len(v) has TLC compute v at every step rather than all 64 at the end.)
RECURSIVE Md5Steps(_, _, _)
Md5Steps(v, block, i) ==
   IF Len(v) # 4 \/ i = Len(Md5S) THEN v
   ELSE LET A == v[1]
            B == v[2]
            C == v[3]
            D == v[4]
            F == IF i < 16 THEN Or32(And32(B, C), And32(Not32(B), D))
                 ELSE IF i < 32 THEN Or32(And32(D, B), And32(Not32(D), C))
                 ELSE IF i < 48 THEN Xor32(B, Xor32(C, D))
                 ELSE Xor32(C, Or32(B, Not32(D)))
            g == IF i < 16 THEN i
                 ELSE IF i < 32 THEN (5 * i + 1) % 16
                 ELSE IF i < 48 THEN (3 * i + 5) % 16
                 ELSE (7 * i) % 16
            T == Add32(Add32(F, A), Add32(Md5K[i + 1], Md5Word(block, g)))
        IN  Md5Steps(<<D, Add32(B, Rotl32(T, Md5S[i + 1])), B, C>>, block, i + 1)

RECURSIVE Md5Blocks(_, _)
Md5Blocks(h, data) ==
   IF data = <<>> THEN h
   ELSE LET v == Md5Steps(h, SubSeq(data, 1, 64), 0)
        IN  Md5Blocks(<< Add32(h[1], v[1]), Add32(h[2], v[2]),
                         Add32(h[3], v[3]), Add32(h[4], v[4]) >>,
                      SubSeq(data, 65, Len(data)))

Word32Bytes(w) == <<w[2] % 256, w[2] \div 256, w[1] % 256, w[1] \div 256>>

\* hashlib.md5(msg).digest()
Md5Digest(msg) ==
   LET h == Md5Blocks(Md5Init, Md5Pad(msg))
   IN  Word32Bytes(h[1]) \o Word32Bytes(h[2]) \o Word32Bytes(h[3]) \o Word32Bytes(h[4])

(***************************************************************************)
(* Inputs: the environment, the catalogs' documents, the files on disk.    *)
(***************************************************************************)

\* The largest number of rows the three catalogs serve in one run, all together.
MaxRows == 2

\* Every sequence over S of length at most n.
SeqsUpTo(S, n) == UNION { [1..k -> S] : k \in 0..n }

\* The console's capture id key, whose MD5 is CAPTURE_ID_KEY_HASH.
ValidKeyHex ==
   << "b", "7", "e", "d", "7", "a", "6", "6", "c", "8", "0", "b", "4", "b", "0", "0" >>
   \o << "8", "b", "a", "f", "7", "f", "0", "5", "8", "9", "c", "0", "8", "2", "2", "4" >>

\* Values of the environment variable CAPTURE_ID_KEY: unset, empty, not
\* hexadecimal, an odd number of digits, 2 bytes, 16 bytes that are not the key,
\* and the key.
KeyPool ==
   { None,
     <<>>,
     << "k", "e", "y" >>,
     << "b", "7", "e" >>,
     << "b", "7", "e", "d" >>,
     << "0", "0", "0", "0", "0", "0", "0", "0", "0", "0", "0", "0", "0", "0", "0", "0" >>
        \o << "0", "0", "0", "0", "0", "0", "0", "0", "0", "0", "0", "0", "0", "0", "0", "0" >>,
     ValidKeyHex }

\* Title ids: the docstring's example, its byte-reversal, one only a prior run
\* knew, and malformed ones (short, of odd length).
TitleA == << "0", "1", "0", "0", "0", "0", "0", "0", "0", "0", "0", "1", "0", "0", "0", "0" >>

TitleB == << "0", "0", "0", "0", "0", "1", "0", "0", "0", "0", "0", "0", "0", "0", "0", "1" >>

TitleOld == << "0", "1", "0", "0", "0", "0", "0", "0", "0", "0", "0", "0", "1", "0", "0", "0" >>

TitleShort == << "0", "1", "0", "0" >>

TitleOdd == << "0", "1", "0" >>

\* The strings "None", "WLD", "EUR", "USA".
StrNone == << "N", "o", "n", "e" >>

WLD == << "W", "L", "D" >>

EUR == << "E", "U", "R" >>

USA == << "U", "S", "A" >>

\* Rows of the switchbrew table, each the text of its cells.
SwitchbrewRows ==
   { << TitleA, << "A", "b" >>, StrNone >>,
     << TitleA, << "a", "/", "B" >>, << "E", "/", "U" >> >>,
     << TitleShort, << "x" >>, <<>> >> }

\* <release> elements of the nswdb document: the text of titleid, name and
\* region, None where the element is missing or empty.
NswdbReleases ==
   { [titleid |-> TitleA, name |-> << "a", "B" >>, region |-> WLD],
     [titleid |-> TitleB, name |-> << "A", "B" >>, region |-> None],
     [titleid |-> TitleShort, name |-> << "c" >>, region |-> EUR],
     [titleid |-> TitleOdd, name |-> << "c" >>, region |-> <<>>] }

\* Entries of the titledb document.
TitledbEntries ==
   { [id |-> TitleA, name |-> << "A", "b", ":", "c" >>, isDemo |-> FALSE],
     [id |-> TitleB, name |-> << " ", "b", "?" >>, isDemo |-> FALSE],
     [id |-> TitleB, name |-> << "d" >>, isDemo |-> TRUE],
     [id |-> TitleShort, name |-> << "e" >>, isDemo |-> FALSE] }

\* Time stamps are opaque strings: one-element sequences, so that None is one.
Stamps == { None, << "2025-06-05T05:14:00+00:00" >> }

Clock == { << "2026-10-30T12:00:00+00:00" >> }

\* What fetching switchbrew can meet: bs4 missing, the site unreachable, a page
\* without the table, or a page with the table's rows. updated is the time in
\* the page's footer.
SwitchbrewDocs(n) ==
   { [error |-> "ImportError", updated |-> None, rows |-> <<>>],
     [error |-> "URLError", updated |-> None, rows |-> <<>>] }
   \cup [error : {"NoTable"}, updated : Stamps \ {None}, rows : {<<>>}]
   \cup [error : {""}, updated : Stamps, rows : SeqsUpTo(SwitchbrewRows, n)]

\* What fetching nswdb can meet: the site unreachable, a document that does not
\* parse, or a document with its releases. updated is the Last-Modified header.
NswdbDocs(n) ==
   { [error |-> "URLError", updated |-> None, rows |-> <<>>] }
   \cup [error : {"ParseError"}, updated : Stamps \ {None}, rows : {<<>>}]
   \cup [error : {""}, updated : Stamps, rows : SeqsUpTo(NswdbReleases, n)]

\* What fetching titledb can meet: the site unreachable, a document that is not
\* JSON, or a document with its entries. updated is the last commit's date.
TitledbDocs(n) ==
   { [error |-> "URLError", updated |-> None, rows |-> <<>>] }
   \cup [error : {"JSONDecodeError"}, updated : Stamps \ {None}, rows : {<<>>}]
   \cup [error : {""}, updated : Stamps, rows : SeqsUpTo(TitledbEntries, n)]

(***************************************************************************)
(* The program                                                             *)
(***************************************************************************)

CAPTURE_ID_KEY_HASH ==
   << "2", "4", "e", "0", "d", "c", "6", "2", "a", "1", "5", "c", "1", "1", "d", "3" >>
   \o << "8", "b", "6", "2", "2", "1", "6", "2", "e", "a", "2", "b", "4", "3", "8", "3" >>

\* The digests of the 16-byte values of KeyPool, computed once.
Md5Memo ==
   { <<fromhex(h), Md5Digest(fromhex(h))>> :
        h \in { k \in KeyPool \ {None} : ~fromhex_raises(k) /\ Len(fromhex(k)) = 16 } }

\* hashlib.md5(b).hexdigest()
md5_hexdigest(b) ==
   IF \E m \in Md5Memo : m[1] = b
      THEN hex((CHOOSE m \in Md5Memo : m[1] = b)[2])
      ELSE hex(Md5Digest(b))

\* A get_capture_id_key() that does not verify the key against the hash.
get_capture_id_key_unverified(key_hex) ==
   IF key_hex = None \/ key_hex = <<>>
      THEN [exit |-> TRUE, key |-> <<>>]
   ELSE IF fromhex_raises(key_hex) \/ Len(fromhex(key_hex)) # 16
      THEN [exit |-> TRUE, key |-> <<>>]
   ELSE [exit |-> FALSE, key |-> fromhex(key_hex)]

\* get_capture_id_key(), key_hex being os.environ.get("CAPTURE_ID_KEY"):
\* exit is TRUE where it calls sys.exit(1), and key is the key it returns.
get_capture_id_key(key_hex) ==
   IF key_hex = None \/ key_hex = <<>>
      THEN [exit |-> TRUE, key |-> <<>>]
   ELSE IF fromhex_raises(key_hex) \/ Len(fromhex(key_hex)) # 16
      THEN [exit |-> TRUE, key |-> <<>>]
   ELSE IF md5_hexdigest(fromhex(key_hex)) # CAPTURE_ID_KEY_HASH
      THEN [exit |-> TRUE, key |-> <<>>]
   ELSE [exit |-> FALSE, key |-> fromhex(key_hex)]

RECURSIVE reverse(_)
reverse(b) == IF b = <<>> THEN <<>> ELSE reverse(Tail(b)) \o <<Head(b)>>

\* bytearray.ljust(width, b'\x00')
ljust(b, width) == IF Len(b) >= width THEN b ELSE b \o Zeros(width - Len(b))

ValidKey == fromhex(ValidKeyHex)

\* The cipher blocks of the title ids above under the key, computed once.
AesMemo ==
   { <<b, AesEncryptBlock(ValidKey, b)>> :
        b \in { ljust(reverse(fromhex(t)), 16) :
                   t \in {TitleA, TitleB, TitleOld, TitleShort} } }

\* AES.new(key, AES.MODE_ECB).encrypt(block)
aes_ecb_encrypt(k, block) ==
   IF k = ValidKey /\ \E m \in AesMemo : m[1] = block
      THEN (CHOOSE m \in AesMemo : m[1] = block)[2]
      ELSE AesEncryptBlock(k, block)

\* Whether encrypt_title_id(title_id, key) raises ValueError (in fromhex).
encrypt_title_id_raises(title_id) == fromhex_raises(prefix(title_id, 16))

\* The bytes of b in ascending order.
RECURSIVE sort_bytes(_)
sort_bytes(b) ==
   IF b = <<>> THEN <<>>
   ELSE LET m == CHOOSE i \in 1..Len(b) : \A j \in 1..Len(b) : b[i] <= b[j]
        IN  <<b[m]>> \o sort_bytes(SubSeq(b, 1, m - 1) \o SubSeq(b, m + 1, Len(b)))

\* An encrypt_title_id that orders the bytes (sort()) instead of reversing them.
encrypt_title_id_sorts(title_id, k) ==
   LET title_bytes == ljust(sort_bytes(fromhex(prefix(title_id, 16))), 16)
       encrypted   == aes_ecb_encrypt(k, title_bytes)
   IN  upper(hex(encrypted))

\* encrypt_title_id(title_id, key), where it does not raise.
encrypt_title_id(title_id, k) ==
   LET title_bytes == ljust(reverse(fromhex(prefix(title_id, 16))), 16)
       encrypted   == aes_ecb_encrypt(k, title_bytes)
   IN  upper(hex(encrypted))

sanitize_game_name(name) ==
   LET n1 == replace(name, ":", << " ", "-" >>)
       n2 == replace(n1, "/", << "-" >>)
       n3 == replace(n2, "\\", << "-" >>)
       n4 == replace(n3, "?", <<>>)
       n5 == replace(n4, "*", <<>>)
       n6 == replace(n5, "\"", << "'" >>)
       n7 == replace(n6, "<", <<>>)
       n8 == replace(n7, ">", <<>>)
       n9 == replace(n8, "|", << "-" >>)
   IN  strip(n9)

\* f"{sanitized_name} ({region})"
with_region(sanitized_name, region) ==
   sanitized_name \o << " ", "(" >> \o region \o << ")" >>

(***************************************************************************)
(* dict: the sequence of its items, in insertion order                     *)
(***************************************************************************)

dict_keys(d) == { d[i][1] : i \in 1..Len(d) }

dict_get(d, k) == d[CHOOSE i \in 1..Len(d) : d[i][1] = k][2]

\* d[k] = v: an existing key keeps its place.
dict_set(d, k, v) ==
   IF k \in dict_keys(d)
      THEN [i \in 1..Len(d) |-> IF d[i][1] = k THEN <<k, v>> ELSE d[i]]
      ELSE Append(d, <<k, v>>)

\* A d.update(other) that keeps the value of a key d already has.
RECURSIVE dict_update_keeps(_, _)
dict_update_keeps(d, other) ==
   IF other = <<>> THEN d
   ELSE dict_update_keeps(IF Head(other)[1] \in dict_keys(d) THEN d
                          ELSE Append(d, Head(other)),
                          Tail(other))

\* d.update(other)
RECURSIVE dict_update(_, _)
dict_update(d, other) ==
   IF other = <<>> THEN d
   ELSE dict_update(dict_set(d, Head(other)[1], Head(other)[2]), Tail(other))

(***************************************************************************)
(* The three fetch functions. Each is given the document the site serves   *)
(* and returns what the function returns, as result, together with calls:  *)
(* the title ids it passed to encrypt_title_id.                            *)
(***************************************************************************)

Sources == << "switchbrew", "nswdb", "titledb" >>

\* {"captureIds": {}, "sourceUpdatedAt": None}
EmptyResult == [captureIds |-> <<>>, sourceUpdatedAt |-> None]

\* {}: the dict without any key.
EmptyDict == [k \in {} |-> None]

\* One row of the switchbrew table (the body of the loop over rows).
switchbrew_row(acc, cells, k) ==
   IF Len(cells) < 3 THEN acc
   ELSE LET title_id  == cells[1]
            game_name == cells[2]
            region    == cells[3]
        IN  IF title_id = <<>> \/ game_name = <<>>
               \/ title_id = StrNone \/ game_name = StrNone
               THEN acc
            ELSE IF Len(title_id) < 16
                    \/ \E i \in 1..16 : title_id[i] \notin HexDigits
               THEN acc
            ELSE LET capture_id     == encrypt_title_id(title_id, k)
                     sanitized_name == sanitize_game_name(game_name)
                     label == IF region # <<>> /\ region # StrNone
                                 THEN with_region(sanitized_name, region)
                                 ELSE sanitized_name
                 IN  [capture_ids |-> dict_set(acc.capture_ids, capture_id, label),
                      calls |-> acc.calls \cup {title_id}]

RECURSIVE switchbrew_rows(_, _, _)
switchbrew_rows(acc, rows, k) ==
   IF rows = <<>> THEN acc
   ELSE switchbrew_rows(switchbrew_row(acc, Head(rows), k), Tail(rows), k)

fetch_switchbrew(doc, k) ==
   IF doc.error = "ImportError" THEN [result |-> EmptyResult, calls |-> {}]
   ELSE IF doc.error = "URLError" THEN [result |-> EmptyResult, calls |-> {}]
   ELSE IF doc.error = "NoTable" THEN [result |-> EmptyDict, calls |-> {}]
   ELSE LET acc == switchbrew_rows([capture_ids |-> <<>>, calls |-> {}], doc.rows, k)
        IN  [result |-> [captureIds |-> acc.capture_ids,
                         sourceUpdatedAt |-> doc.updated],
             calls |-> acc.calls]

\* One <release> of the nswdb document (the body of the loop over releases).
nswdb_release(acc, release, k) ==
   LET title_id == release.titleid
       name     == release.name
       region   == IF release.region = WLD THEN EUR \o << " " >> \o USA
                   ELSE release.region
   IN  IF title_id = None \/ title_id = <<>> \/ name = None \/ name = <<>>
          THEN acc
       ELSE IF encrypt_title_id_raises(title_id)
          THEN [acc EXCEPT !.calls = @ \cup {title_id}]
       ELSE LET capture_id     == encrypt_title_id(title_id, k)
                sanitized_name == sanitize_game_name(name)
                label == IF region # None /\ region # <<>>
                            THEN with_region(sanitized_name, region)
                            ELSE sanitized_name
            IN  [capture_ids |-> dict_set(acc.capture_ids, capture_id, label),
                 calls |-> acc.calls \cup {title_id}]

RECURSIVE nswdb_releases(_, _, _)
nswdb_releases(acc, rows, k) ==
   IF rows = <<>> THEN acc
   ELSE nswdb_releases(nswdb_release(acc, Head(rows), k), Tail(rows), k)

fetch_nswdb(doc, k) ==
   IF doc.error \in {"URLError", "ParseError"}
      THEN [result |-> EmptyResult, calls |-> {}]
   ELSE LET acc == nswdb_releases([capture_ids |-> <<>>, calls |-> {}], doc.rows, k)
        IN  [result |-> [captureIds |-> acc.capture_ids,
                         sourceUpdatedAt |-> doc.updated],
             calls |-> acc.calls]

\* One entry of the titledb document (the body of the loop over entries).
titledb_entry(acc, entry, k) ==
   LET title_id == entry.id
       name     == entry.name
   IN  IF title_id = None \/ title_id = <<>> \/ name = None \/ name = <<>>
          THEN acc
       ELSE IF entry.isDemo THEN acc
       ELSE IF Len(title_id) < 16
               \/ \E i \in 1..16 : title_id[i] \notin HexDigits
          THEN acc
       ELSE LET capture_id     == encrypt_title_id(title_id, k)
                sanitized_name == sanitize_game_name(name)
            IN  [capture_ids |-> dict_set(acc.capture_ids, capture_id,
                                          with_region(sanitized_name, USA)),
                 calls |-> acc.calls \cup {title_id}]

RECURSIVE titledb_entries(_, _, _)
titledb_entries(acc, rows, k) ==
   IF rows = <<>> THEN acc
   ELSE titledb_entries(titledb_entry(acc, Head(rows), k), Tail(rows), k)

fetch_titledb(doc, k) ==
   IF doc.error \in {"URLError", "JSONDecodeError"}
      THEN [result |-> EmptyResult, calls |-> {}]
   ELSE LET acc == titledb_entries([capture_ids |-> <<>>, calls |-> {}], doc.rows, k)
        IN  [result |-> [captureIds |-> acc.capture_ids,
                         sourceUpdatedAt |-> doc.updated],
             calls |-> acc.calls]

(***************************************************************************)
(* Loading and saving                                                      *)
(***************************************************************************)

\* load_existing(): the Mapping in the file, {} when there is none.
load_existing(file) == IF file = <<>> THEN <<>> ELSE file[1]

\* x sorts before y under key=lambda x: x[1], without lower().
item_lt_cased(x, y) == str_lt(x[2], y[2])

\* x sorts before y under key=lambda x: x[1].lower()
item_lt(x, y) == str_lt(lower(x[2]), lower(y[2]))

\* The sorted list with item x put after every item that does not sort after it.
RECURSIVE insert_sorted(_, _)
insert_sorted(items, x) ==
   IF items = <<>> THEN <<x>>
   ELSE IF item_lt(x, Head(items)) THEN <<x>> \o items
   ELSE <<Head(items)>> \o insert_sorted(Tail(items), x)

\* sorted(items, key=lambda x: x[1].lower()): a stable sort.
RECURSIVE sorted(_)
sorted(items) ==
   IF items = <<>> THEN <<>>
   ELSE insert_sorted(sorted(SubSeq(items, 1, Len(items) - 1)), items[Len(items)])

\* A "sources" that holds this run's sources only.
metadata_sources_resets(info, existing_metadata, now) ==
   [n \in DOMAIN info |->
      [count |-> info[n].count,
       fetchedAt |-> now,
       sourceUpdatedAt |-> info[n].sourceUpdatedAt]]

\* The "sources" of the metadata save_capture_ids builds: a source of this run
\* with this run's values, any other with its entry of the existing metadata.
metadata_sources(info, existing_metadata, now) ==
   LET updated == { Sources[i] : i \in 1..Len(Sources) } \cap DOMAIN info
       kept    == IF existing_metadata = <<>> THEN {}
                  ELSE ({ Sources[i] : i \in 1..Len(Sources) }
                           \cap DOMAIN existing_metadata[1].sources) \ updated
   IN  [n \in updated \cup kept |->
          IF n \in updated
             THEN [count |-> info[n].count,
                   fetchedAt |-> now,
                   sourceUpdatedAt |-> info[n].sourceUpdatedAt]
             ELSE existing_metadata[1].sources[n]]

\* A save_capture_ids that writes the two files in a dry run as well.
save_capture_ids_writes(ids, info, dry_run, now, disk) ==
   LET sorted_ids == sorted(ids)
   IN  [output   |-> <<sorted_ids>>,
        metadata |-> << [totalCount  |-> Len(sorted_ids),
                         generatedAt |-> now,
                         sources     |-> metadata_sources(info,
                                            disk.metadata, now)] >>]

\* save_capture_ids(capture_ids, source_info, dry_run), as ids and info, at
\* time now: the two files after it, from the two files (disk) before it.
save_capture_ids(ids, info, dry_run, now, disk) ==
   LET sorted_ids == sorted(ids)
   IN  IF dry_run THEN disk
       ELSE [output   |-> <<sorted_ids>>,
             metadata |-> << [totalCount  |-> Len(sorted_ids),
                              generatedAt |-> now,
                              sources     |-> metadata_sources(info,
                                                 disk.metadata, now)] >>]

(***************************************************************************)
(* main                                                                    *)
(***************************************************************************)

\* The files a run may find: none, or the two a previous run wrote.
PriorMapping ==
   << << encrypt_title_id(TitleA, ValidKey), << "O", "l", "d" >> >>,
      << encrypt_title_id(TitleOld, ValidKey), << "a", "a" >> >> >>

PriorMetadata ==
   [totalCount  |-> Len(PriorMapping),
    generatedAt |-> << "2025-01-01T00:00:00+00:00" >>,
    sources     |->
       [switchbrew |-> [count |-> 1,
                        fetchedAt |-> << "2025-01-01T00:00:00+00:00" >>,
                        sourceUpdatedAt |-> None],
        titledb    |-> [count |-> 2,
                        fetchedAt |-> << "2024-06-01T00:00:00+00:00" >>,
                        sourceUpdatedAt |-> << "2024-05-31T23:00:00+00:00" >>]]]

DiskPool ==
   { [output |-> <<>>, metadata |-> <<>>],
     [output |-> <<PriorMapping>>, metadata |-> <<PriorMetadata>>] }

VARIABLES
   environ,      \* os.environ.get("CAPTURE_ID_KEY")
   args,         \* the parsed command line: source, dry_run, keep_existing
   files,        \* OUTPUT_PATH and METADATA_PATH: output, metadata
   pc,           \* where main is
   key,          \* main's key
   capture_ids,  \* main's capture_ids
   source_info,  \* main's source_info
   exit_status,  \* how the process ended
   fetched,      \* history: per source fetched, its document, result and calls
   loaded,       \* history: whether load_existing() was called
   prior         \* history: the files as the run found them

vars ==
   << environ, args, files, pc, key, capture_ids, source_info, exit_status,
      fetched, loaded, prior >>

Init ==
   /\ environ \in KeyPool
   /\ args \in [source : {"switchbrew", "nswdb", "titledb", "all"},
                dry_run : BOOLEAN, keep_existing : BOOLEAN]
   /\ files \in DiskPool
   /\ pc = "get_capture_id_key"
   /\ key = <<>>
   /\ capture_ids = <<>>
   /\ source_info = EmptyDict
   /\ exit_status = "running"
   /\ fetched = EmptyDict
   /\ loaded = FALSE
   /\ prior = files

\* key = get_capture_id_key()
GetKey ==
   /\ pc = "get_capture_id_key"
   /\ LET r == get_capture_id_key(environ)
      IN  IF r.exit
             THEN /\ pc' = "exited"
                  /\ exit_status' = "SystemExit(1)"
                  /\ key' = key
             ELSE /\ pc' = "load_existing"
                  /\ exit_status' = exit_status
                  /\ key' = r.key
   /\ UNCHANGED << environ, args, files, capture_ids, source_info, fetched,
                   loaded, prior >>

\* if args.keep_existing: capture_ids = load_existing()
LoadExisting ==
   /\ pc = "load_existing"
   /\ capture_ids' = IF args.keep_existing THEN load_existing(files.output)
                     ELSE capture_ids
   /\ loaded' = args.keep_existing
   /\ pc' = "switchbrew"
   /\ UNCHANGED << environ, args, files, key, source_info, exit_status, fetched,
                   prior >>

\* The rows the catalogs may still serve in this run.
RowsLeft ==
   LET RECURSIVE Served(_)
       Served(S) ==
          IF S = {} THEN 0
          ELSE LET n == CHOOSE n \in S : TRUE
               IN  Len(fetched[n].doc.rows) + Served(S \ {n})
   IN  MaxRows - Served(DOMAIN fetched)

\* A main that counts the merged mapping, len(capture_ids) after the update.
main_source_info_merged(name, result, ids) ==
   [n \in DOMAIN source_info \cup {name} |->
      IF n = name
         THEN [count |-> Len(dict_update(ids, result.captureIds)),
               sourceUpdatedAt |-> result.sourceUpdatedAt]
         ELSE source_info[n]]

\* source_info[name] after main took result from the source, ids being
\* capture_ids before the update.
main_source_info(name, result, ids) ==
   [n \in DOMAIN source_info \cup {name} |->
      IF n = name
         THEN [count |-> Len(result.captureIds),
               sourceUpdatedAt |-> result.sourceUpdatedAt]
         ELSE source_info[n]]

\* One "if args.source in (name, "all")" block of main, f being what the fetch
\* function did on doc: result["captureIds"] raises KeyError on a result without
\* that key.
MainSource(name, doc, f, next) ==
   /\ fetched' = [n \in DOMAIN fetched \cup {name} |->
                    IF n = name
                       THEN [doc |-> doc, result |-> f.result, calls |-> f.calls]
                       ELSE fetched[n]]
   /\ IF "captureIds" \in DOMAIN f.result
         THEN /\ source_info' = main_source_info(name, f.result, capture_ids)
              /\ capture_ids' = dict_update(capture_ids, f.result.captureIds)
              /\ pc' = next
              /\ exit_status' = exit_status
         ELSE /\ pc' = "raised"
              /\ exit_status' = "KeyError"
              /\ UNCHANGED << source_info, capture_ids >>
   /\ UNCHANGED << environ, args, files, key, loaded, prior >>

Skip(next) ==
   /\ pc' = next
   /\ UNCHANGED << environ, args, files, key, capture_ids, source_info,
                   exit_status, fetched, loaded, prior >>

Switchbrew ==
   /\ pc = "switchbrew"
   /\ IF args.source \in {"switchbrew", "all"}
         THEN \E doc \in SwitchbrewDocs(RowsLeft) :
                 MainSource("switchbrew", doc, fetch_switchbrew(doc, key), "nswdb")
         ELSE Skip("nswdb")

Nswdb ==
   /\ pc = "nswdb"
   /\ IF args.source \in {"nswdb", "all"}
         THEN \E doc \in NswdbDocs(RowsLeft) :
                 MainSource("nswdb", doc, fetch_nswdb(doc, key), "titledb")
         ELSE Skip("titledb")

Titledb ==
   /\ pc = "titledb"
   /\ IF args.source \in {"titledb", "all"}
         THEN \E doc \in TitledbDocs(RowsLeft) :
                 MainSource("titledb", doc, fetch_titledb(doc, key), "save")
         ELSE Skip("save")

\* if not capture_ids: return 1; save_capture_ids(...); return 0
Save ==
   /\ pc = "save"
   /\ IF capture_ids = <<>>
         THEN /\ exit_status' = "1"
              /\ files' = files
         ELSE /\ exit_status' = "0"
              /\ \E now \in Clock :
                    files' = save_capture_ids(capture_ids, source_info,
                                              args.dry_run, now, files)
   /\ pc' = "done"
   /\ UNCHANGED << environ, args, key, capture_ids, source_info, fetched,
                   loaded, prior >>

Next == GetKey \/ LoadExisting \/ Switchbrew \/ Nswdb \/ Titledb \/ Save

Spec == Init /\ [][Next]_vars

(***************************************************************************)
(* What the claims speak of                                                *)
(***************************************************************************)

\* The run went through every source block of main.
Merged == pc \in {"save", "done"}

\* The run returned 0 and wrote the two files.
Wrote == pc = "done" /\ exit_status = "0" /\ ~args.dry_run

\* The source is selected by --source.
Selected(name) == args.source \in {name, "all"}

\* The mapping the run was seeded with.
Seed == IF args.keep_existing THEN load_existing(prior.output) ELSE <<>>

\* The mapping the source contributed in this run.
Produced(name) ==
   IF name \in DOMAIN fetched /\ "captureIds" \in DOMAIN fetched[name].result
      THEN fetched[name].result.captureIds
      ELSE <<>>

\* The label of capture id x in the last of seed, switchbrew, nswdb, titledb
\* that has x.
LastLabel(x) ==
   IF x \in dict_keys(Produced("titledb")) THEN dict_get(Produced("titledb"), x)
   ELSE IF x \in dict_keys(Produced("nswdb")) THEN dict_get(Produced("nswdb"), x)
   ELSE IF x \in dict_keys(Produced("switchbrew"))
      THEN dict_get(Produced("switchbrew"), x)
   ELSE dict_get(Seed, x)

\* C1: once main has gone through the sources, the mapping holds exactly the
\* capture ids of the seed (with --keep-existing) and of the processed sources,
\* each with the label of the last of seed, switchbrew, nswdb, titledb that
\* produced it; the file a run writes holds these labels.
C1_MergePrecedence ==
   Merged =>
      /\ dict_keys(capture_ids) =
            dict_keys(Seed) \cup dict_keys(Produced("switchbrew"))
               \cup dict_keys(Produced("nswdb")) \cup dict_keys(Produced("titledb"))
      /\ \A x \in dict_keys(capture_ids) : dict_get(capture_ids, x) = LastLabel(x)
      /\ Wrote => \A x \in dict_keys(capture_ids) :
                     /\ x \in dict_keys(files.output[1])
                     /\ dict_get(files.output[1], x) = LastLabel(x)

\* A run seeded with two entries, one of which switchbrew and titledb both
\* produced under three different labels: it has titledb's label, the other
\* seeded entry is retained.
C1_Witness ==
   /\ Wrote
   /\ \E x \in dict_keys(Seed) :
         /\ x \in dict_keys(Produced("switchbrew"))
         /\ x \in dict_keys(Produced("titledb"))
         /\ dict_get(Seed, x) # dict_get(Produced("switchbrew"), x)
         /\ dict_get(Produced("switchbrew"), x) # dict_get(Produced("titledb"), x)
         /\ dict_get(Seed, x) # dict_get(Produced("titledb"), x)
         /\ dict_get(files.output[1], x) = dict_get(Produced("titledb"), x)
   /\ \E y \in dict_keys(Seed) :
         /\ y \notin dict_keys(Produced("switchbrew")) \cup dict_keys(Produced("titledb"))
         /\ dict_get(files.output[1], y) = dict_get(Seed, y)

\* C2: in the metadata a run writes, a source that --source did not select and
\* that the metadata the run found has keeps its entry unchanged, and a source
\* the run refreshed has this run's count, this run's time and the source's own
\* last-updated stamp.
C2_MetadataKeptAndRefreshed ==
   Wrote =>
      LET written == files.metadata[1]
      IN  /\ \A i \in 1..Len(Sources) :
                LET n == Sources[i]
                IN  IF Selected(n)
                       THEN /\ n \in DOMAIN written.sources
                            /\ written.sources[n] =
                                  [count |-> Len(Produced(n)),
                                   fetchedAt |-> written.generatedAt,
                                   sourceUpdatedAt |->
                                      fetched[n].result.sourceUpdatedAt]
                       ELSE prior.metadata # <<>>
                            /\ n \in DOMAIN prior.metadata[1].sources
                            => /\ n \in DOMAIN written.sources
                               /\ written.sources[n] = prior.metadata[1].sources[n]
          /\ written.generatedAt \in Clock

\* A run of nswdb alone that found metadata with entries for switchbrew and
\* titledb, and wrote metadata.
C2_Witness ==
   /\ Wrote
   /\ args.source = "nswdb"
   /\ prior.metadata # <<>>
   /\ {"switchbrew", "titledb"} \subseteq DOMAIN prior.metadata[1].sources
   /\ files.metadata[1].sources["titledb"] = prior.metadata[1].sources["titledb"]
   /\ files.metadata[1].sources["nswdb"].count > 0
   /\ files.metadata[1].sources["nswdb"].sourceUpdatedAt # None

\* The key in the environment is missing, is not hex, is not 16 bytes long, or
\* does not have the digest CAPTURE_ID_KEY_HASH.
Untrusted(key_hex) ==
   \/ key_hex = None
   \/ fromhex_raises(key_hex)
   \/ Len(fromhex(key_hex)) # 16
   \/ md5_hexdigest(fromhex(key_hex)) # CAPTURE_ID_KEY_HASH

\* The untrusted values among those the environment may hold.
UntrustedKeys == { h \in KeyPool : Untrusted(h) }

\* C3: with a key that is missing, malformed, of the wrong length or of the
\* wrong digest, the run ends in SystemExit(1) at its first step: the existing
\* mapping is never loaded, no source is fetched, and the files stay as found.
C3_UntrustedKeyExits ==
   environ \in UntrustedKeys =>
      /\ pc \in {"get_capture_id_key", "exited"}
      /\ pc = "exited" => exit_status = "SystemExit(1)"
      /\ ~loaded
      /\ fetched = EmptyDict
      /\ capture_ids = <<>>
      /\ files = prior

\* A run with --keep-existing, files present and a 16-byte hex key of another
\* digest, after it exited.
C3_Witness ==
   /\ pc = "exited"
   /\ environ # None
   /\ ~fromhex_raises(environ)
   /\ Len(fromhex(environ)) = 16
   /\ args.keep_existing
   /\ prior.output # <<>>

\* The source was processed and gave no record: its fetch failed, or none of
\* its rows made a pair.
GaveNothing(name) == Produced(name) = <<>>

\* The run is over, main having got past the key.
Ended == pc \in {"done", "raised"}

\* C4: a run in which every processed source gives zero valid records returns
\* 1 and writes neither file; it does not raise.
C4_NothingFetchedFails ==
   Ended /\ (\A n \in DOMAIN fetched : GaveNothing(n)) =>
      /\ pc = "done"
      /\ exit_status = "1"
      /\ files = prior

\* C5: a source whose fetch or parse fails (dependency missing, network error,
\* malformed document, table not found) gives the empty result, main records
\* the count 0 for it and goes on: the run does not raise.
C5_SourceFailureIsEmptyResult ==
   \A n \in DOMAIN fetched :
      fetched[n].doc.error # "" =>
         /\ fetched[n].result = EmptyResult
         /\ pc # "raised"
         /\ n \in DOMAIN source_info
         /\ source_info[n].count = 0

\* C6: no fetch function passes a title id of fewer than 16 characters to
\* encrypt_title_id, and no record with such a title id contributes an entry.
C6_ShortTitleIdRejected ==
   \A n \in DOMAIN fetched :
      /\ \A t \in fetched[n].calls : Len(t) >= 16
      /\ \A i \in 1..Len(fetched[n].doc.rows) :
            LET row == fetched[n].doc.rows[i]
                tid == IF n = "switchbrew" THEN row[1]
                       ELSE IF n = "nswdb" THEN row.titleid ELSE row.id
            IN  tid # None /\ Len(tid) < 16 /\ ~encrypt_title_id_raises(tid)
                => encrypt_title_id(tid, key) \notin dict_keys(Produced(n))

\* The characters sanitize_game_name removes or replaces.
IllegalChars == { ":", "/", "\\", "?", "*", "\"", "<", ">", "|" }

\* C7: no label of the final mapping contains ":", "/", "\", "?", "*", the
\* double quote, "<", ">" or "|".
C7_LabelsLegal ==
   Merged =>
      \A i \in 1..Len(capture_ids) :
         \A j \in 1..Len(capture_ids[i][2]) :
            capture_ids[i][2][j] \notin IllegalChars

\* The place of capture id x in the sequence of pairs d.
Place(d, x) == CHOOSE i \in 1..Len(d) : d[i][1] = x

\* C8: the mapping a run writes has the pairs of the merged mapping, in
\* ascending order of the lower-cased label, pairs of equal lower-cased labels
\* in the order the merged mapping has them.
C8_OutputSorted ==
   Wrote =>
      LET out == files.output[1]
      IN  /\ Len(out) = Len(capture_ids)
          /\ { out[i] : i \in 1..Len(out) } =
                { capture_ids[i] : i \in 1..Len(capture_ids) }
          /\ \A i \in 1..Len(out) - 1 :
                ~str_lt(lower(out[i + 1][2]), lower(out[i][2]))
          /\ \A i, j \in 1..Len(capture_ids) :
                i < j /\ lower(capture_ids[i][2]) = lower(capture_ids[j][2])
                => Place(out, capture_ids[i][1]) < Place(out, capture_ids[j][1])

\* A written mapping that is not in the order of the merged mapping, and has
\* two different labels that are equal once lower-cased next to a label whose
\* place depends on the case.
C8_Witness ==
   /\ Wrote
   /\ files.output[1] # capture_ids
   /\ \E i, j \in 1..Len(capture_ids) :
         /\ i < j
         /\ capture_ids[i][2] # capture_ids[j][2]
         /\ lower(capture_ids[i][2]) = lower(capture_ids[j][2])
   /\ \E i, j \in 1..Len(capture_ids) :
         /\ str_lt(capture_ids[i][2], capture_ids[j][2])
         /\ str_lt(lower(capture_ids[j][2]), lower(capture_ids[i][2]))

\* C9: a source that passes the title ids 0100000000010000 and
\* 0000010000000001 to encrypt_title_id gets two different capture ids, each of
\* 32 upper-case hex characters, and contributes an entry under each.
C9_ReversedTitlesDiffer ==
   \A n \in DOMAIN fetched :
      {TitleA, TitleB} \subseteq fetched[n].calls =>
         LET a == encrypt_title_id(TitleA, key)
             b == encrypt_title_id(TitleB, key)
         IN  /\ a # b
             /\ {a, b} \subseteq dict_keys(Produced(n))
             /\ \A x \in {a, b} :
                   /\ Len(x) = 32
                   /\ x = upper(x)
                   /\ \A i \in 1..32 :
                         lower_char(x[i]) \in { LowerHexChars[h] : h \in 1..16 }

\* A source passed both title ids to encrypt_title_id and the merged mapping
\* has an entry for each.
C9_Witness ==
   /\ Merged
   /\ \E n \in DOMAIN fetched : {TitleA, TitleB} \subseteq fetched[n].calls
   /\ encrypt_title_id(TitleA, key) \in dict_keys(capture_ids)
   /\ encrypt_title_id(TitleB, key) \in dict_keys(capture_ids)
   /\ Len(capture_ids) >= 2

\* What the loop body of each fetch function makes of one row alone, under the
\* verified key: the one pair it produces, or nothing.
SwitchbrewPair ==
   [row \in SwitchbrewRows |->
      switchbrew_row([capture_ids |-> <<>>, calls |-> {}], row, ValidKey).capture_ids]

NswdbPair ==
   [row \in NswdbReleases |->
      nswdb_release([capture_ids |-> <<>>, calls |-> {}], row, ValidKey).capture_ids]

TitledbPair ==
   [row \in TitledbEntries |->
      titledb_entry([capture_ids |-> <<>>, calls |-> {}], row, ValidKey).capture_ids]

RowPair(name, row) ==
   IF name = "switchbrew" THEN SwitchbrewPair[row]
   ELSE IF name = "nswdb" THEN NswdbPair[row]
   ELSE TitledbPair[row]

\* The rows of the source's document that pass normalization.
NormalizedRows(name) ==
   { i \in 1..Len(fetched[name].doc.rows) :
        RowPair(name, fetched[name].doc.rows[i]) # <<>> }

\* The capture ids of the rows that pass normalization.
NormalizedIds(name) ==
   LET pairs == { RowPair(name, fetched[name].doc.rows[i]) :
                     i \in 1..Len(fetched[name].doc.rows) } \ { <<>> }
   IN  { p[1][1] : p \in pairs }

\* C10 as stated: the count recorded for a source is the number of its records
\* that passed normalization in this run.
C10_CountIsRecords ==
   \A n \in DOMAIN source_info :
      /\ key = ValidKey
      /\ source_info[n].count = Cardinality(NormalizedRows(n))

\* C10: the count recorded for a source is the number of distinct capture ids
\* among its records that passed normalization in this run (records of one
\* capture id count once), whatever the mapping held before the source was
\* merged; the metadata a run writes has this count.
C10_CountIsDistinctIds ==
   \A n \in DOMAIN source_info :
      /\ key = ValidKey
      /\ source_info[n].count = Cardinality(NormalizedIds(n))
      /\ Wrote => files.metadata[1].sources[n].count = source_info[n].count

\* A run seeded with the capture id that both rows of its switchbrew table
\* have: the count of switchbrew is 1, the mapping has more entries.
C10_Witness ==
   /\ Wrote
   /\ "switchbrew" \in DOMAIN source_info
   /\ Cardinality(NormalizedRows("switchbrew")) = 2
   /\ NormalizedIds("switchbrew") \subseteq dict_keys(Seed)
   /\ source_info["switchbrew"].count = 1
   /\ files.metadata[1].sources["switchbrew"].count = 1
   /\ Len(capture_ids) > 1

\* C11: in a run with --dry-run neither file is created or modified, at any
\* point of the run and however it ends; where main returns, it returns 0
\* exactly when the merged mapping is not empty, and 1 otherwise.
C11_DryRunWritesNothing ==
   args.dry_run =>
      /\ files = prior
      /\ pc = "done" => /\ exit_status \in {"0", "1"}
                        /\ exit_status = "0" <=> capture_ids # <<>>
      /\ pc # "done" => exit_status # "0"

\* A dry run with --keep-existing that returned 0 over files it found, its
\* merged mapping being another than the one in the file.
C11_Witness ==
   /\ args.dry_run
   /\ args.keep_existing
   /\ pc = "done"
   /\ exit_status = "0"
   /\ prior.output # <<>>
   /\ sorted(capture_ids) # prior.output[1]
   /\ \E n \in DOMAIN source_info : source_info[n].count > 0
   /\ files = prior
====
